---- MODULE Spec2Model ----
(***************************************************************************)
(* Model of runner/requester.go: the Requester's connection pool           *)
(* (openClientConns / closeClientConns / newClientConn), the orchestrator  *)
(* Requester.Run with its stop / done event loop, and the                  *)
(* constant-concurrency worker pool runConstConcurrencyWorkers.            *)
(* The Worker call loop, the statsHandler (StatsTap) and the Reporter live *)
(* in other files of the package; they are modelled from their contract.   *)
(***************************************************************************)
EXTENDS Integers, Sequences, FiniteSets, TLC

\* ---------------------------------------------------------------- bounds
MaxN == 3
MaxC == 2
MaxConns == 2
MaxStops == 2
MaxDialFails == 1
MaxApiCalls == 3
MaxCapC == 100

\* ------------------------------------------------------- program constants
maxResult == 1000000

ReasonNormalEnd == 0
StopReasons == 1..MaxStops
ZStops == {"close", "ignore", "default"}

VARIABLES
  cfg,          \* RunConfig: n, c, nConns, zstop, constStrategy
  conns,        \* b.conns: sequence of connection ids
  connsNil,     \* b.conns == nil
  handlers,     \* b.handlers: handlers[h] is the ignore flag of statsHandler h
  closes,       \* closes[h]: number of Close() calls on the connection dialed with
                \* handler h; -1 when that dial failed and there is no connection
  stubs,        \* b.stubs: sequence of connection ids the stubs wrap
  lock,         \* b.lock is held
  rpc,          \* position of the caller of Run / openClientConns / closeClientConns
  ret,          \* who called openClientConns / closeClientConns
  dialN,        \* loop counter n of openClientConns
  openErr,      \* openClientConns is returning an error
  openRet,      \* the slice last returned by openClientConns
  runResult,    \* how the last Run returned
  stopReason,   \* local stopReason of Run
  stopBuf,      \* number of values buffered in Run's stop channel
  doneBuf,      \* Run's done channel (capacity 1)
  runErr,       \* error returned by Run
  results,      \* b.results: [len, closed, cap]
  reporter,     \* Reporter drain loop
  finalized,    \* arguments of Reporter.Finalize calls of this run
  ppc,          \* position of runConstConcurrencyWorkers
  pi,           \* loop counter i of runConstConcurrencyWorkers
  pn,           \* connection counter n of runConstConcurrencyWorkers
  workers,      \* the workers map
  errC,         \* errC channel
  agg,          \* the aggregating goroutine: [i, err]
  poolDone,     \* done channel of runConstConcurrencyWorkers
  stopsHandled, \* reasons of the stop requests Run has received in this run
  stopCloseDone,\* a closeClientConns called from the stop case has returned
  hist,         \* counters: calls of Run, direct pool calls, failed dials
  panic         \* the process has panicked

vars == <<cfg, conns, connsNil, handlers, closes, stubs, lock, rpc, ret, dialN,
          openErr, openRet, runResult, stopReason, stopBuf, doneBuf, runErr,
          results, reporter, finalized, ppc, pi, pn, workers, errC, agg,
          poolDone, stopsHandled, stopCloseDone, hist, panic>>

runVars == <<stubs, stopReason, stopBuf, doneBuf, runErr, reporter,
             finalized, stopsHandled, stopCloseDone>>
wpVars == <<ppc, pi, pn, workers, errC, agg, poolDone>>

\* ---------------------------------------------------------------- helpers
min(a, b) == IF a < b THEN a ELSE b

\* Go's int is 32 bits wide on the 32-bit targets (64 on the others, where the
\* same wrap happens 2^32 times further out); values are kept in two halves so
\* that no intermediate product leaves the width
IntHalf == 2^16

\* a * b as Go computes it on int: the product modulo 2^32, read as a signed
\* value (0 <= a < 2^31, 0 <= b < 2^15)
mulInt(a, b) ==
  LET lo == (a % IntHalf) * b
      hi == ((a \div IntHalf) * b + (lo \div IntHalf)) % IntHalf
  IN IF hi >= IntHalf \div 2
       THEN (hi - IntHalf) * IntHalf + (lo % IntHalf)
       ELSE hi * IntHalf + (lo % IntHalf)

ResultsCap(c) == min(mulInt(c, 1000), maxResult)

Range(s) == {s[k] : k \in 1..Len(s)}

RECURSIVE SumOver(_, _)
SumOver(f, S) ==
  IF S = {} THEN 0
  ELSE LET x == CHOOSE y \in S : TRUE IN f[x] + SumOver(f, S \ {x})

Workers == 0..(cfg.c - 1)

NoCall == [conn |-> 0, afterClose |-> FALSE, atClose |-> FALSE]

NoWorker == [pc |-> "none", stub |-> 0, reqCount |-> 0, active |-> FALSE,
             done |-> 0, doneClosed |-> FALSE, signals |-> 0, call |-> NoCall]

Configs == [n : 0..MaxN, c : 0..MaxC, nConns : 1..MaxConns, zstop : ZStops,
            constStrategy : BOOLEAN]

\* ------------------------------------------------------------------- Init
\* newRequester: empty non-nil conns and stubs, no handler, open results channel
Init ==
  /\ cfg \in Configs
  /\ conns = <<>> /\ connsNil = FALSE
  /\ handlers = <<>> /\ closes = <<>>
  /\ stubs = <<>>
  /\ lock = FALSE
  /\ rpc = "idle" /\ ret = "none"
  /\ dialN = 0 /\ openErr = FALSE /\ openRet = <<>>
  /\ runResult = "none"
  /\ stopReason = ReasonNormalEnd
  /\ stopBuf = 0 /\ doneBuf = <<>> /\ runErr = <<>>
  /\ results = [len |-> 0, closed |-> FALSE, cap |-> ResultsCap(cfg.c)]
  /\ reporter = "none"
  /\ finalized = <<>>
  /\ ppc = "none" /\ pi = 0 /\ pn = 0
  /\ workers = [i \in Workers |-> NoWorker]
  /\ errC = <<>>
  /\ agg = [i |-> 0, err |-> <<>>]
  /\ poolDone = <<>>
  /\ stopsHandled = <<>>
  /\ stopCloseDone = FALSE
  /\ hist = [runs |-> 0, apiCalls |-> 0, dialFails |-> 0]
  /\ panic = "none"

Alive == panic = "none"

\* ------------------------------------------------------- connection pool
\* newClientConn(true): registers a fresh statsHandler, then dials
newClientConn(ok) ==
  /\ handlers' = Append(handlers, FALSE)
  /\ closes' = Append(closes, IF ok THEN 0 ELSE -1)
  /\ IF ok
       THEN /\ conns' = Append(conns, Len(handlers) + 1)
            /\ connsNil' = FALSE
       ELSE UNCHANGED <<conns, connsNil>>

\* a comparison that never recognises a complete pool
PoolCompleteStrict(cs, nConns) == Len(cs) > nConns

\* openClientConns, line 227: the pool already holds nConns connections
PoolComplete(cs, nConns) == Len(cs) = nConns

\* openClientConns, lines 224-229: take the lock, return the pool when complete
OpenLock ==
  /\ Alive /\ rpc = "open_lock" /\ ~lock
  /\ lock' = TRUE
  /\ dialN' = 0
  /\ openErr' = FALSE
  /\ IF PoolComplete(conns, cfg.nConns)
       THEN rpc' = "open_unlock" /\ openRet' = conns
       ELSE rpc' = "open_dial" /\ UNCHANGED openRet
  /\ UNCHANGED <<cfg, conns, connsNil, handlers, closes, ret, runResult, hist,
                 panic, results>>
  /\ UNCHANGED runVars /\ UNCHANGED wpVars

\* openClientConns, lines 231-244: one iteration of the dial loop
OpenDial ==
  /\ Alive /\ rpc = "open_dial"
  /\ \E ok \in BOOLEAN :
       /\ ~ok => hist.dialFails < MaxDialFails
       /\ newClientConn(ok)
       /\ IF ok
            THEN /\ dialN' = dialN + 1
                 /\ UNCHANGED <<openErr, hist>>
                 /\ IF dialN + 1 = cfg.nConns
                      THEN rpc' = "open_unlock" /\ openRet' = conns'
                      ELSE rpc' = "open_dial" /\ UNCHANGED openRet
            ELSE /\ openErr' = TRUE
                 /\ openRet' = <<>>
                 /\ hist' = [hist EXCEPT !.dialFails = @ + 1]
                 /\ rpc' = "open_unlock"
                 /\ UNCHANGED dialN
  /\ UNCHANGED <<cfg, lock, ret, runResult, panic, results>>
  /\ UNCHANGED runVars /\ UNCHANGED wpVars

\* openClientConns: the deferred Unlock and the return to the caller
\* (Run, lines 147-150, returns connErr when the open failed)
OpenUnlock ==
  /\ Alive /\ rpc = "open_unlock"
  /\ lock' = FALSE
  /\ IF ret = "run"
       THEN IF openErr
              THEN rpc' = "idle" /\ runResult' = "connErr"
              ELSE rpc' = "setup" /\ UNCHANGED runResult
       ELSE rpc' = "idle" /\ UNCHANGED runResult
  /\ ret' = "none"
  /\ UNCHANGED <<cfg, conns, connsNil, handlers, closes, dialN, openErr, openRet,
                 hist, panic, results>>
  /\ UNCHANGED runVars /\ UNCHANGED wpVars

\* closeClientConns without the b.conns = nil
KeptConns == conns

\* the pool after the loop of closeClientConns, line 262
ClearedConns == <<>>

\* closeClientConns: the deferred Unlock and the return to the caller
\* (Run line 187/192 goes back to the select, Run line 218 returns)
CloseReturn ==
  /\ lock' = FALSE
  /\ ret' = "none"
  /\ IF ret = "select"
       THEN rpc' = "select" /\ stopCloseDone' = TRUE /\ UNCHANGED runResult
       ELSE IF ret = "return"
         THEN rpc' = "idle" /\ runResult' = "returned" /\ UNCHANGED stopCloseDone
         ELSE rpc' = "idle" /\ UNCHANGED <<runResult, stopCloseDone>>

\* closeClientConns, lines 252-256: take the lock, return when the pool is nil
CloseLock ==
  /\ Alive /\ rpc = "close_lock" /\ ~lock
  /\ IF connsNil
       THEN CloseReturn
       ELSE /\ lock' = TRUE
            /\ rpc' = "close_conns"
            /\ UNCHANGED <<ret, runResult, stopCloseDone>>
  /\ UNCHANGED <<cfg, conns, connsNil, handlers, closes, dialN, openErr,
                 openRet, hist, panic, results>>
  /\ UNCHANGED <<stubs, stopReason, stopBuf, doneBuf, runErr, reporter,
                 finalized, stopsHandled>>
  /\ UNCHANGED wpVars

\* closeClientConns, lines 258-262: Close every pooled connection, clear the
\* pool, unlock and return
CloseConns ==
  /\ Alive /\ rpc = "close_conns"
  /\ closes' = [h \in 1..Len(closes) |->
                  closes[h] + Cardinality({k \in 1..Len(conns) : conns[k] = h})]
  /\ conns' = ClearedConns
  /\ connsNil' = (conns' = <<>>)
  /\ workers' = [i \in Workers |->
                   IF workers[i].pc = "calling" /\ workers[i].call.conn \in Range(conns)
                     THEN [workers[i] EXCEPT !.call.atClose = TRUE]
                     ELSE workers[i]]
  /\ CloseReturn
  /\ UNCHANGED <<cfg, handlers, dialN, openErr, openRet, hist, panic, results>>
  /\ UNCHANGED <<stubs, stopReason, stopBuf, doneBuf, runErr, reporter,
                 finalized, stopsHandled>>
  /\ UNCHANGED <<ppc, pi, pn, errC, agg, poolDone>>

\* a caller other than Run invokes openClientConns
ApiOpen ==
  /\ Alive /\ rpc = "idle" /\ hist.apiCalls < MaxApiCalls
  /\ rpc' = "open_lock" /\ ret' = "api"
  /\ hist' = [hist EXCEPT !.apiCalls = @ + 1]
  /\ UNCHANGED <<cfg, conns, connsNil, handlers, closes, lock, dialN, openErr,
                 openRet, runResult, panic, results>>
  /\ UNCHANGED runVars /\ UNCHANGED wpVars

\* a caller other than Run invokes closeClientConns
ApiClose ==
  /\ Alive /\ rpc = "idle" /\ hist.apiCalls < MaxApiCalls
  /\ rpc' = "close_lock" /\ ret' = "api"
  /\ hist' = [hist EXCEPT !.apiCalls = @ + 1]
  /\ UNCHANGED <<cfg, conns, connsNil, handlers, closes, lock, dialN, openErr,
                 openRet, runResult, panic, results>>
  /\ UNCHANGED runVars /\ UNCHANGED wpVars

\* ------------------------------------------------------------ Requester.Run
\* Run, line 147: Run is called on the fresh Requester and calls openClientConns
RunStart ==
  /\ Alive /\ rpc = "idle" /\ hist.runs = 0
  /\ rpc' = "open_lock" /\ ret' = "run"
  /\ runResult' = "none"
  /\ hist' = [hist EXCEPT !.runs = @ + 1]
  /\ stopsHandled' = <<>> /\ stopCloseDone' = FALSE /\ finalized' = <<>>
  /\ stopBuf' = 0 /\ doneBuf' = <<>> /\ runErr' = <<>>
  /\ ppc' = "none" /\ pi' = 0 /\ pn' = 0
  /\ workers' = [i \in Workers |-> NoWorker]
  /\ errC' = <<>> /\ agg' = [i |-> 0, err |-> <<>>] /\ poolDone' = <<>>
  /\ UNCHANGED <<cfg, conns, connsNil, handlers, closes, lock, dialN, openErr,
                 openRet, panic, results>>
  /\ UNCHANGED <<stubs, stopReason, reporter>>

\* Run, lines 152-177: one stub per connection, the reporter, the stop and done
\* channels, and the two goroutines
RunSetup ==
  /\ Alive /\ rpc = "setup"
  /\ stubs' = stubs \o SubSeq(openRet, 1, cfg.nConns)
  /\ reporter' = "running"
  /\ stopReason' = ReasonNormalEnd
  /\ ppc' = IF cfg.constStrategy THEN "start" ELSE "noop"
  /\ rpc' = "select"
  /\ UNCHANGED <<cfg, conns, connsNil, handlers, closes, lock, ret, dialN, openErr,
                 openRet, runResult, hist, panic, results>>
  /\ UNCHANGED <<stopBuf, doneBuf, runErr, finalized, stopsHandled, stopCloseDone>>
  /\ UNCHANGED <<pi, pn, workers, errC, agg, poolDone>>

\* StopReason values are opaque to Run: the k-th stop request of a run carries
\* reason k, so the latest reason differs from every earlier one
NextReason == Len(stopsHandled) + 1

\* only the first stop request's reason is kept
KeepFirstReason(old, reason) == IF old = ReasonNormalEnd THEN reason ELSE old

\* the reason Run keeps for a received stop request, line 182
RecordedReason(old, reason) == reason

\* the stop case closing the connections whatever zstop says
ForwardClosing ==
  /\ stopBuf' = stopBuf + 1
  /\ rpc' = "close_lock" /\ ret' = "select"

\* Run, lines 184-193: stop <- true, then the branch on zstop
Forward ==
  /\ stopBuf' = stopBuf + 1
  /\ IF cfg.zstop = "close"
       THEN rpc' = "close_lock" /\ ret' = "select"
       ELSE IF cfg.zstop = "ignore"
         THEN rpc' = "ignore" /\ UNCHANGED ret
         ELSE rpc' = "select" /\ UNCHANGED ret

\* Run, lines 181-193: a stop request is received and its reason recorded; the
\* send on stop follows at once when the one-slot buffer has room
RunRecvStop ==
  /\ Alive /\ rpc = "select" /\ Len(stopsHandled) < MaxStops
  /\ LET reason == NextReason IN
       /\ stopReason' = RecordedReason(stopReason, reason)
       /\ stopsHandled' = Append(stopsHandled, reason)
  /\ IF stopBuf < 1
       THEN Forward
       ELSE rpc' = "forward" /\ UNCHANGED <<stopBuf, ret>>
  /\ UNCHANGED <<cfg, conns, connsNil, handlers, closes, lock, dialN, openErr,
                 openRet, runResult, hist, panic, results>>
  /\ UNCHANGED <<stubs, doneBuf, runErr, reporter, finalized, stopCloseDone>>
  /\ UNCHANGED wpVars

\* Run, line 184: the send on stop, blocked while the buffer was full, goes through
RunForward ==
  /\ Alive /\ rpc = "forward" /\ stopBuf < 1
  /\ Forward
  /\ UNCHANGED <<cfg, conns, connsNil, handlers, closes, lock, dialN, openErr,
                 openRet, runResult, hist, panic, results>>
  /\ UNCHANGED <<stubs, stopReason, doneBuf, runErr, reporter, finalized,
                 stopsHandled, stopCloseDone>>
  /\ UNCHANGED wpVars

\* the loop of lines 189-191 left out
IgnoreNone(hs) == hs

\* the Ignore flags after the loop of lines 189-191
IgnoreAll(hs) == [h \in 1..Len(hs) |-> TRUE]

\* Run, lines 189-192: Ignore(true) on every handler, then closeClientConns
RunIgnore ==
  /\ Alive /\ rpc = "ignore"
  /\ handlers' = IgnoreAll(handlers)
  /\ rpc' = "close_lock" /\ ret' = "select"
  /\ UNCHANGED <<cfg, conns, connsNil, closes, lock, dialN, openErr,
                 openRet, runResult, hist, panic, results>>
  /\ UNCHANGED runVars /\ UNCHANGED wpVars

\* the reason Run hands to Finalize, line 214
FinalReason(r) == r

\* Run, lines 194-200: the pool's completion is received; the three closes
RunRecvDone ==
  /\ Alive /\ rpc = "select" /\ doneBuf # <<>>
  /\ runErr' = Head(doneBuf)
  /\ doneBuf' = <<>>
  /\ IF results.closed
       THEN /\ panic' = "close of closed channel"
            /\ UNCHANGED <<results, rpc>>
       ELSE /\ results' = [results EXCEPT !.closed = TRUE]
            /\ rpc' = "wait_reporter"
            /\ UNCHANGED panic
  /\ UNCHANGED <<cfg, conns, connsNil, handlers, closes, lock, ret, dialN, openErr,
                 openRet, runResult, hist>>
  /\ UNCHANGED <<stubs, stopReason, stopBuf, reporter, finalized, stopsHandled,
                 stopCloseDone>>
  /\ UNCHANGED wpVars

\* Finalize without the receive from reporter.done
ReporterNotAwaited == TRUE

\* Run, line 208: the receive from reporter.done goes through
ReporterDone == reporter = "done"

\* Run, lines 208-216: wait for reporter.done, Finalize, then closeClientConns
RunFinalize ==
  /\ Alive /\ rpc = "wait_reporter" /\ ReporterDone
  /\ finalized' = Append(finalized, FinalReason(stopReason))
  /\ rpc' = "close_lock" /\ ret' = "return"
  /\ UNCHANGED <<cfg, conns, connsNil, handlers, closes, lock, dialN, openErr,
                 openRet, runResult, hist, panic, results>>
  /\ UNCHANGED <<stubs, stopReason, stopBuf, doneBuf, runErr, reporter,
                 stopsHandled, stopCloseDone>>
  /\ UNCHANGED wpVars

\* ----------------------------------------------------------------- Reporter
\* Reporter.Run takes one result off the pipeline
ReporterDrain ==
  /\ Alive /\ reporter = "running" /\ results.len > 0
  /\ results' = [results EXCEPT !.len = @ - 1]
  /\ UNCHANGED <<cfg, conns, connsNil, handlers, closes, lock, rpc, ret, dialN,
                 openErr, openRet, runResult, hist, panic>>
  /\ UNCHANGED runVars /\ UNCHANGED wpVars

\* Reporter.Run sees the pipeline closed and drained, and signals done
ReporterFinish ==
  /\ Alive /\ reporter = "running" /\ results.closed /\ results.len = 0
  /\ reporter' = "done"
  /\ UNCHANGED <<cfg, conns, connsNil, handlers, closes, lock, rpc, ret, dialN,
                 openErr, openRet, runResult, hist, panic, results>>
  /\ UNCHANGED <<stubs, stopReason, stopBuf, doneBuf, runErr, finalized,
                 stopsHandled, stopCloseDone>>
  /\ UNCHANGED wpVars

\* ------------------------------------------- runConstConcurrencyWorkers
\* a quota rounded up instead of down
nReqPerWorkerCeil(n, c) == (n + c - 1) \div c

\* line 319: the quota of each worker (evaluated for c # 0 only)
nReqPerWorker(n, c) == n \div c

\* a wrap-around one connection too early
NextConnEarlyWrap(n, nConns) == IF n + 1 >= nConns - 1 THEN 0 ELSE n + 1

\* lines 359-364: the connection counter after a worker was bound
NextConn(n, nConns) == IF n + 1 = nConns THEN 0 ELSE n + 1

\* finishWorkers without the isActive check
SignalAlways(w) == TRUE

\* line 387: finishWorkers signals a worker only when it is active
ShouldSignal(w) == w.active

\* lines 319-325: the division, then the c == 0 return
PoolStart ==
  /\ Alive /\ ppc = "start"
  /\ IF cfg.c = 0
       THEN /\ panic' = "integer divide by zero"
            /\ UNCHANGED <<ppc, pi, pn>>
       ELSE /\ ppc' = "create" /\ pi' = 0 /\ pn' = 0
            /\ UNCHANGED panic
  /\ UNCHANGED <<cfg, conns, connsNil, handlers, closes, lock, rpc, ret, dialN,
                 openErr, openRet, runResult, hist, results>>
  /\ UNCHANGED runVars
  /\ UNCHANGED <<workers, errC, agg, poolDone>>

\* lines 332-371: one iteration of the loop creating and starting worker i;
\* lines 373-382 start the aggregating goroutine after the last one
PoolCreate ==
  /\ Alive /\ ppc = "create" /\ pi < cfg.c
  /\ IF pn + 1 > Len(stubs)
       THEN /\ panic' = "index out of range"
            /\ UNCHANGED <<workers, pi, pn, ppc>>
       ELSE /\ workers' = [workers EXCEPT ![pi] =
                 [pc |-> "loop", stub |-> pn, reqCount |-> 0, active |-> TRUE,
                  done |-> 0, doneClosed |-> FALSE, signals |-> 0, call |-> NoCall]]
            /\ pn' = NextConn(pn, cfg.nConns)
            /\ pi' = pi + 1
            /\ ppc' = IF pi + 1 = cfg.c THEN "loop" ELSE "create"
            /\ UNCHANGED panic
  /\ UNCHANGED <<cfg, conns, connsNil, handlers, closes, lock, rpc, ret, dialN,
                 openErr, openRet, runResult, hist, results>>
  /\ UNCHANGED runVars
  /\ UNCHANGED <<errC, agg, poolDone>>

\* finishWorkers closing the worker's channel right after signaling it
finishWorkerClosing(w) ==
  IF ShouldSignal(w)
    THEN [w EXCEPT !.active = FALSE, !.done = @ + 1, !.signals = @ + 1,
                   !.doneClosed = TRUE]
    ELSE w

\* lines 385-393: what finishWorkers does to one worker
finishWorker(w) ==
  IF ShouldSignal(w)
    THEN [w EXCEPT !.active = FALSE, !.done = @ + 1, !.signals = @ + 1]
    ELSE w

\* workers that returned on their own: setActive is the Worker's to call too,
\* so each of them may have marked itself inactive before it returned
SelfFinished == {w \in Workers : workers[w].pc = "returned" /\ workers[w].active}

\* lines 398-399 and 384-394: a stop is received and finishWorkers ranges over
\* the map; a send on a wrk.done whose one-slot buffer is full blocks
PoolRecvStop ==
  /\ Alive /\ ppc = "loop" /\ stopBuf > 0
  /\ \E inactive \in SUBSET SelfFinished :
       /\ \A w \in Workers \ inactive :
            ShouldSignal(workers[w]) => workers[w].done < 1
       /\ workers' = [w \in Workers |->
                        IF w \in inactive
                          THEN [workers[w] EXCEPT !.active = FALSE]
                          ELSE finishWorker(workers[w])]
  /\ stopBuf' = stopBuf - 1
  /\ UNCHANGED <<cfg, conns, connsNil, handlers, closes, lock, rpc, ret, dialN,
                 openErr, openRet, runResult, hist, panic, results>>
  /\ UNCHANGED <<stubs, stopReason, doneBuf, runErr, reporter, finalized,
                 stopsHandled, stopCloseDone>>
  /\ UNCHANGED <<ppc, pi, pn, errC, agg, poolDone>>

\* lines 400-410 and 171: the aggregated error is received, every wrk.done and
\* errC are closed, and the error is sent on Run's done channel
PoolRecvDone ==
  /\ Alive /\ ppc = "loop" /\ poolDone # <<>>
  /\ workers' = [i \in Workers |-> [workers[i] EXCEPT !.doneClosed = TRUE]]
  /\ doneBuf' = <<Head(poolDone)>>
  /\ poolDone' = <<>>
  /\ ppc' = "returned"
  /\ UNCHANGED <<cfg, conns, connsNil, handlers, closes, lock, rpc, ret, dialN,
                 openErr, openRet, runResult, hist, panic, results>>
  /\ UNCHANGED <<stubs, stopReason, stopBuf, runErr, reporter, finalized,
                 stopsHandled, stopCloseDone>>
  /\ UNCHANGED <<pi, pn, errC, agg>>

\* err = <-errC in place of multierr.Append: the last error wins
multierrOverwrite(err, e) == IF e = 0 THEN err ELSE <<e>>

\* multierr.Append: nil (0) adds nothing, an error is added to the combination
multierrAppend(err, e) == IF e = 0 THEN err ELSE Append(err, e)

\* lines 376-379: the combination of the first k values received from errC
RECURSIVE Combine(_, _)
Combine(ch, k) ==
  IF k = 0 THEN <<>> ELSE multierrAppend(Combine(ch, k - 1), ch[k])

\* the aggregating goroutine stopping at the first worker error received
ErrsToCollectFirst(c) == 1

\* line 377: the aggregating goroutine receives len(workers) values from errC
ErrsToCollect(c) == c

\* lines 375-382: the aggregating goroutine has received len(workers) worker
\* errors from errC and sends their combination on done
Aggregate ==
  /\ Alive /\ ppc = "loop" /\ agg.i = 0 /\ Len(errC) >= ErrsToCollect(cfg.c)
  /\ errC' = SubSeq(errC, ErrsToCollect(cfg.c) + 1, Len(errC))
  /\ agg' = [i |-> ErrsToCollect(cfg.c),
             err |-> Combine(errC, ErrsToCollect(cfg.c))]
  /\ poolDone' = <<Combine(errC, ErrsToCollect(cfg.c))>>
  /\ UNCHANGED <<cfg, conns, connsNil, handlers, closes, lock, rpc, ret, dialN,
                 openErr, openRet, runResult, hist, panic, results>>
  /\ UNCHANGED runVars
  /\ UNCHANGED <<ppc, pi, pn, workers>>

\* ------------------------------------------------------------------- Worker
\* the worker's stop channel holds a signal, or is closed
StopPending(w) == w.done > 0 \/ w.doneClosed

\* the continuation predicate handed to runWorker, lines 367-369
Continue(reqCount) == reqCount < nReqPerWorker(cfg.n, cfg.c)

\* the connection behind the stub worker w is bound to, line 346
StubConn(w) == stubs[w.stub + 1]

\* the terminal errors a worker may return: nil (0) or an error (1)
WorkerErrs(i) == {0, 1}

\* runWorker: the stop signal is taken and the worker returns
WorkerStop(i) ==
  /\ Alive /\ workers[i].pc = "loop" /\ StopPending(workers[i])
  /\ \E e \in WorkerErrs(i) :
       errC' = Append(errC, e)
  /\ workers' = [workers EXCEPT ![i].pc = "returned",
                                ![i].done = IF @ > 0 THEN @ - 1 ELSE @]
  /\ UNCHANGED <<cfg, conns, connsNil, handlers, closes, lock, rpc, ret, dialN,
                 openErr, openRet, runResult, hist, panic, results>>
  /\ UNCHANGED runVars
  /\ UNCHANGED <<ppc, pi, pn, agg, poolDone>>

\* runWorker: no stop signal and the predicate holds, the next call is issued
WorkerIssue(i) ==
  /\ Alive /\ workers[i].pc = "loop" /\ ~StopPending(workers[i])
  /\ Continue(workers[i].reqCount)
  /\ workers' = [workers EXCEPT ![i].pc = "calling",
                   ![i].call = [conn |-> StubConn(workers[i]),
                                afterClose |-> stopCloseDone,
                                atClose |-> FALSE]]
  /\ UNCHANGED <<cfg, conns, connsNil, handlers, closes, lock, rpc, ret, dialN,
                 openErr, openRet, runResult, hist, panic, results>>
  /\ UNCHANGED runVars
  /\ UNCHANGED <<ppc, pi, pn, errC, agg, poolDone>>

\* the call completes (or fails at the transport); the statsHandler of its
\* connection enqueues a callResult unless told to ignore; the send blocks while
\* the pipeline is full and panics when it is closed
WorkerComplete(i) ==
  /\ Alive /\ workers[i].pc = "calling"
  /\ IF handlers[workers[i].call.conn]
       THEN UNCHANGED <<results, panic>>
       ELSE IF results.closed
         THEN panic' = "send on closed channel" /\ UNCHANGED results
         ELSE /\ results.len < results.cap
              /\ results' = [results EXCEPT !.len = @ + 1]
              /\ UNCHANGED panic
  /\ workers' = [workers EXCEPT ![i].pc = "loop",
                                ![i].reqCount = @ + 1,
                                ![i].call = NoCall]
  /\ UNCHANGED <<cfg, conns, connsNil, handlers, closes, lock, rpc, ret, dialN,
                 openErr, openRet, runResult, hist>>
  /\ UNCHANGED runVars
  /\ UNCHANGED <<ppc, pi, pn, errC, agg, poolDone>>

\* runWorker: the predicate fails, the worker returns its terminal error
WorkerFinish(i) ==
  /\ Alive /\ workers[i].pc = "loop" /\ ~StopPending(workers[i])
  /\ ~Continue(workers[i].reqCount)
  /\ \E e \in WorkerErrs(i) :
       errC' = Append(errC, e)
  /\ workers' = [workers EXCEPT ![i].pc = "returned"]
  /\ UNCHANGED <<cfg, conns, connsNil, handlers, closes, lock, rpc, ret, dialN,
                 openErr, openRet, runResult, hist, panic, results>>
  /\ UNCHANGED runVars
  /\ UNCHANGED <<ppc, pi, pn, agg, poolDone>>

\* ------------------------------------------------------------ specification
Next ==
  \/ OpenLock \/ OpenDial \/ OpenUnlock
  \/ CloseLock \/ CloseConns
  \/ RunStart \/ RunSetup \/ RunRecvStop \/ RunForward \/ RunIgnore
  \/ RunRecvDone \/ RunFinalize
  \/ ReporterDrain \/ ReporterFinish
  \/ PoolStart \/ PoolCreate \/ PoolRecvStop
  \/ PoolRecvDone \/ Aggregate
  \/ \E i \in Workers : WorkerStop(i)
  \/ \E i \in Workers : WorkerIssue(i)
  \/ \E i \in Workers : WorkerComplete(i)
  \/ \E i \in Workers : WorkerFinish(i)

Spec == Init /\ [][Next]_vars

\* --------------------------------------------- construction of a Requester
\* the concurrency values a RunConfig is constructed with
CapInputs == (0..MaxCapC) \cup {999, 1000, 1001, 2147483, 2147484, 4294967,
                                4294968, 2147483647}

CapConfigs == [n : {0}, c : CapInputs, nConns : {1}, zstop : {"default"},
               constStrategy : {TRUE}]

\* a RunConfig handed to newRequester, nothing constructed yet
InitCap ==
  /\ cfg \in CapConfigs
  /\ conns = <<>> /\ connsNil = FALSE
  /\ handlers = <<>> /\ closes = <<>>
  /\ stubs = <<>>
  /\ lock = FALSE
  /\ rpc = "new" /\ ret = "none"
  /\ dialN = 0 /\ openErr = FALSE /\ openRet = <<>>
  /\ runResult = "none"
  /\ stopReason = ReasonNormalEnd
  /\ stopBuf = 0 /\ doneBuf = <<>> /\ runErr = <<>>
  /\ results = [len |-> 0, closed |-> FALSE, cap |-> 0]
  /\ reporter = "none"
  /\ finalized = <<>>
  /\ ppc = "none" /\ pi = 0 /\ pn = 0
  /\ workers = [i \in {} |-> NoWorker]
  /\ errC = <<>>
  /\ agg = [i |-> 0, err |-> <<>>]
  /\ poolDone = <<>>
  /\ stopsHandled = <<>>
  /\ stopCloseDone = FALSE
  /\ hist = [runs |-> 0, apiCalls |-> 0, dialFails |-> 0]
  /\ panic = "none"

\* newRequester, line 65: make(chan *callResult, min(c.c*1000, maxResult));
\* make panics on a negative size
NewRequester ==
  /\ Alive /\ rpc = "new"
  /\ results' = [results EXCEPT !.cap = ResultsCap(cfg.c)]
  /\ panic' = IF ResultsCap(cfg.c) < 0 THEN "makechan: size out of range"
                                      ELSE "none"
  /\ rpc' = "idle"
  /\ UNCHANGED <<cfg, conns, connsNil, handlers, closes, lock, ret, dialN,
                 openErr, openRet, runResult, hist>>
  /\ UNCHANGED runVars /\ UNCHANGED wpVars

NextCap == NewRequester

CapSpec == InitCap /\ [][NextCap]_vars

\* the connection pool alone, driven by direct calls of openClientConns and
\* closeClientConns
NextPool ==
  \/ ApiOpen \/ ApiClose
  \/ OpenLock \/ OpenDial \/ OpenUnlock
  \/ CloseLock \/ CloseConns

PoolSpec == Init /\ [][NextPool]_vars

TypeOK ==
  /\ cfg \in Configs
  /\ lock \in BOOLEAN
  /\ stopBuf \in 0..1
  /\ Len(doneBuf) <= 1

\* ------------------------------------------------------------------ claims
\* calls worker i has issued: the completed ones and the one in flight
Issued(i) == workers[i].reqCount + (IF workers[i].pc = "calling" THEN 1 ELSE 0)

IssuedCalls == SumOver([i \in Workers |-> Issued(i)], Workers)

AllHandlersIgnore == \A h \in 1..Len(handlers) : handlers[h]

\* C1: with c > 0 no worker ever issues more than floor(n/c) calls, and when the
\* pool has returned without any stop request every worker has completed
\* exactly floor(n/c) calls, c * floor(n/c) in total: the n mod c remainder is
\* never issued
C1_QuotaCalls ==
  cfg.c > 0 =>
    /\ \A i \in Workers : Issued(i) <= cfg.n \div cfg.c
    /\ (ppc = "returned" /\ stopsHandled = <<>>) =>
         /\ \A i \in Workers : workers[i].reqCount = cfg.n \div cfg.c
         /\ IssuedCalls = cfg.c * (cfg.n \div cfg.c)
         /\ IssuedCalls = cfg.n - (cfg.n % cfg.c)

C1_Witness ==
  /\ runResult = "returned" /\ stopsHandled = <<>>
  /\ cfg.c = 2 /\ cfg.n % cfg.c = 1 /\ IssuedCalls = 2

\* C2: with c == 0 no crash is reached: the pool returns nil and Run goes on
\* to complete without error
C2_ZeroConcurrencyNoCrash ==
  cfg.c = 0 => panic = "none"

\* C3: every created worker i is bound to the stub at index i mod nConns; with
\* c == nConns no two workers share a stub
C3_RoundRobin ==
  /\ \A i \in Workers :
       workers[i].pc # "none" => workers[i].stub = i % cfg.nConns
  /\ cfg.c = cfg.nConns =>
       \A i, j \in Workers :
         (workers[i].pc # "none" /\ workers[j].pc # "none" /\ i # j)
            => workers[i].stub # workers[j].stub

C3_Witness ==
  /\ cfg.c > cfg.nConns /\ cfg.nConns = 1
  /\ \A i \in Workers : workers[i].pc # "none"
  /\ workers[1].stub = 0

\* C4: no worker's stop channel is ever sent more than one stop notification,
\* whatever the interleaving of worker completion and stop requests
C4_SignaledAtMostOnce ==
  \A i \in Workers : workers[i].signals <= 1

C4_Witness ==
  /\ Len(stopsHandled) = 2 /\ rpc = "select" /\ stopBuf = 0 /\ ppc = "loop"
  /\ \E i \in Workers : workers[i].signals = 1 /\ workers[i].pc = "returned"

\* C5: after Run has returned the dial error of openClientConns, the pool holds
\* no connection and no StatsTap of the failed attempt
C5_NoPartialPool ==
  runResult = "connErr" => (conns = <<>> /\ handlers = <<>>)

\* C6: an openClientConns entered with exactly nConns pooled connections goes
\* straight to its return: it dials nothing, registers no StatsTap, leaves the
\* pool as it is and returns that very pool without error
C6_OpenIdempotent ==
  [][(rpc = "open_lock" /\ Len(conns) = cfg.nConns /\ rpc' # rpc) =>
       /\ rpc' = "open_unlock"
       /\ conns' = conns
       /\ handlers' = handlers
       /\ openRet' = conns
       /\ ~openErr']_vars

C6_Witness ==
  /\ rpc = "open_unlock" /\ dialN = 0 /\ ~openErr
  /\ hist.apiCalls >= 2
  /\ Len(conns) = cfg.nConns /\ openRet = conns /\ Len(handlers) = cfg.nConns

\* C7: no connection is ever closed twice, a closeClientConns leaves the pool
\* cleared, and when Run has returned every connection that was dialed has been
\* closed exactly once, however often the stop path called closeClientConns
C7_ClosedExactlyOnce ==
  /\ \A h \in 1..Len(closes) : closes[h] <= 1
  /\ connsNil => conns = <<>>
  /\ runResult = "returned" =>
       /\ connsNil
       /\ \A h \in 1..Len(closes) : closes[h] \in {-1, 1}

C7_Witness ==
  /\ runResult = "returned" /\ cfg.zstop \in {"close", "ignore"}
  /\ Len(stopsHandled) = 2 /\ stopCloseDone
  /\ Len(closes) = 2 /\ \A h \in 1..Len(closes) : closes[h] = 1

\* C8: under zstop "close", a call issued after a stop-triggered
\* closeClientConns has returned never adds a CallResult to the pipeline
C8_NoResultAfterClose ==
  [][\A i \in Workers :
       (/\ cfg.zstop = "close"
        /\ workers[i].pc = "calling" /\ workers[i].call.afterClose
        /\ workers'[i].pc # "calling")
       => results' = results]_vars

\* C9: under zstop "ignore", whenever the stop case closes connections every
\* StatsTap's Ignore flag is already true and stays true afterwards, and a call
\* that was in flight when they were closed completes without adding a
\* CallResult to the pipeline
C9_IgnoreBeforeClose ==
  [][cfg.zstop = "ignore" =>
       /\ (rpc = "close_lock" /\ ret = "select") => AllHandlersIgnore
       /\ (ret = "select" /\ closes' # closes) => AllHandlersIgnore
       /\ stopCloseDone => AllHandlersIgnore
       /\ \A i \in Workers :
            (workers[i].pc = "calling" /\ workers[i].call.atClose
               /\ workers'[i].pc # "calling")
            => /\ results' = results
               /\ panic' = panic
               /\ workers'[i].reqCount = workers[i].reqCount + 1]_vars

C9_Witness ==
  /\ cfg.zstop = "ignore" /\ stopCloseDone /\ ~results.closed
  /\ \E i \in Workers : workers[i].pc = "calling" /\ workers[i].call.atClose

\* C10: the reason handed to Finalize is NormalEnd when no stop request was
\* handled, otherwise the reason of the latest handled stop request; without a
\* stop request c * floor(n/c) calls were issued by then, which for n = 100 and
\* c = 10 is 100
C10_FinalReason ==
  /\ Len(finalized) <= 1
  /\ finalized # <<>> =>
       /\ finalized[1] = (IF stopsHandled = <<>> THEN ReasonNormalEnd
                          ELSE stopsHandled[Len(stopsHandled)])
       /\ (stopsHandled = <<>> /\ cfg.c > 0) =>
            IssuedCalls = cfg.c * nReqPerWorker(cfg.n, cfg.c)
  /\ 10 * nReqPerWorker(100, 10) = 100

C10_Witness ==
  /\ runResult = "returned" /\ Len(stopsHandled) = 2
  /\ finalized = <<2>>

\* some pooled connection has been closed
SomeConnClosed == \E h \in 1..Len(closes) : closes[h] >= 1

\* C11: Finalize is called only once the result pipeline is closed and the
\* Reporter has signaled done, and only from the wait that follows the three
\* closes; Run returns only after Finalize and with the pool closed; under the
\* default policy no connection is closed before Finalize
C11_ShutdownOrder ==
  /\ finalized # <<>> =>
       /\ results.closed /\ results.len = 0 /\ reporter = "done"
       /\ rpc \in {"close_lock", "close_conns", "idle"}
  /\ rpc = "wait_reporter" => (results.closed /\ finalized = <<>>)
  /\ runResult = "returned" => (finalized # <<>> /\ connsNil)
  /\ (cfg.zstop = "default" /\ SomeConnClosed) => finalized # <<>>

C11_Witness ==
  /\ cfg.zstop = "default" /\ rpc = "close_conns" /\ ret = "return"
  /\ finalized # <<>> /\ ~SomeConnClosed
  /\ stopsHandled # <<>> /\ IssuedCalls > 0

\* C12: a constructed Requester's result pipeline has capacity
\* min(c * 1000, 1000000) for every concurrency c >= 0: c * 1000 below 1000
\* workers, 1000000 from there on, 0 when c = 0, and construction succeeds
C12_PipelineCapacity ==
  rpc # "new" =>
    /\ panic = "none"
    /\ results.cap = (IF cfg.c <= maxResult \div 1000 THEN cfg.c * 1000
                                                     ELSE maxResult)
    /\ results.cap <= maxResult
    /\ cfg.c = 0 => results.cap = 0

\* C13: a worker's stop channel is closed only by the returning pool, after
\* every worker has returned; no stop notification is sent on a closed channel
\* (once closed, a channel's notification count never changes); a worker that
\* is still running never sees its channel closed
C13_CloseAfterSignals ==
  [][\A i \in Workers :
       /\ workers'[i].doneClosed =>
            /\ ppc' = "returned"
            /\ \A j \in Workers : workers'[j].pc = "returned"
       /\ workers[i].doneClosed =>
            /\ workers'[i].signals = workers[i].signals
            /\ workers'[i].done = workers[i].done
       /\ workers'[i].signals > workers[i].signals => ~workers'[i].doneClosed
    ]_vars

C13_Witness ==
  /\ cfg.c >= 2 /\ ppc = "returned"
  /\ \E i \in Workers : workers[i].doneClosed /\ workers[i].signals = 1
  /\ \E i \in Workers : workers[i].doneClosed /\ workers[i].signals = 0

\* the worker errors among the values of a channel
NonNil(ch) == {k \in 1..Len(ch) : ch[k] # 0}

\* C14: every returning worker hands exactly one terminal error to the pool;
\* the pool combines them only when all c workers have returned, the
\* combination holds each non-nil worker error once and nothing else (so it is
\* nil exactly when every worker returned nil), and the pool returns that
\* combination, also after a stop
C14_PoolResult ==
  [][/\ \A i \in Workers :
          (workers[i].pc # "returned" /\ workers'[i].pc = "returned")
            => errC' = Append(errC, errC'[Len(errC')])
     /\ (poolDone = <<>> /\ poolDone' # <<>>) =>
          /\ \A i \in Workers : workers[i].pc = "returned"
          /\ Len(errC) = cfg.c
          /\ Len(poolDone'[1]) = Cardinality(NonNil(errC))
          /\ NonNil(poolDone'[1]) = 1..Len(poolDone'[1])
          /\ (poolDone'[1] = <<>>) <=> (\A k \in 1..Len(errC) : errC[k] = 0)
     /\ (ppc # "returned" /\ ppc' = "returned") =>
          /\ \A i \in Workers : workers[i].pc = "returned"
          /\ poolDone # <<>> /\ doneBuf' = <<poolDone[1]>>
    ]_vars

C14_Witness ==
  /\ cfg.c = 2 /\ ppc = "returned" /\ stopsHandled # <<>>
  /\ doneBuf # <<>> /\ Len(doneBuf[1]) = 2
  /\ \E i \in Workers : workers[i].signals = 1

\* C15: under the default stop policy, handling a stop request changes neither
\* the pool nor any StatsTap's Ignore flag and Run goes back to its select; no
\* Ignore flag is ever set and every completed call enqueues its CallResult;
\* connections are closed only by Run's finalization, after the pool completed
\* and Finalize was called
C15_DefaultPolicyFrame ==
  [][cfg.zstop = "default" =>
       /\ (stopsHandled' # stopsHandled \/ rpc = "forward") =>
            /\ conns' = conns /\ connsNil' = connsNil /\ closes' = closes
            /\ handlers' = handlers /\ lock' = lock
            /\ rpc' \in {"select", "forward"}
       /\ \A h \in 1..Len(handlers') : ~handlers'[h]
       /\ ~stopCloseDone'
       /\ \A i \in Workers :
            (workers[i].pc = "calling" /\ workers'[i].pc # "calling")
            => results' = [results EXCEPT !.len = @ + 1]
       /\ ((\E h \in 1..Len(closes) : closes'[h] > closes[h])
             \/ (connsNil' /\ ~connsNil)) =>
            /\ ppc = "returned" /\ finalized # <<>>
            /\ ret = "return"
    ]_vars

C15_Witness ==
  /\ cfg.zstop = "default" /\ Len(stopsHandled) = 2 /\ rpc = "select"
  /\ ~connsNil /\ ~SomeConnClosed /\ Len(conns) = cfg.nConns
  /\ \E i \in Workers : workers[i].pc = "calling" /\ workers[i].signals = 1

\* C16: the pool lock is never held across network I/O: in no state is the
\* lock held while a connection is being dialed or closed
C16_NoLockAcrossIO == ~(lock /\ rpc \in {"open_dial", "close_conns"})

\* the pool is open: a call has left nConns live connections in it
PoolOpen == rpc = "idle" /\ ~connsNil /\ Len(conns) = cfg.nConns

\* C17: after any sequence of openClientConns and closeClientConns (no dial
\* having failed), whenever the pool is open the Requester holds one StatsTap
\* per pooled connection, nConns in all, and the caller handles it holds are
\* nConns, handle j being the handle of the open connection j
C17_OnePerConnection ==
  (PoolOpen /\ hist.dialFails = 0) =>
    /\ Len(handlers) = cfg.nConns
    /\ stubs # <<>> =>
         /\ Len(stubs) = cfg.nConns
         /\ \A j \in 1..cfg.nConns : stubs[j] = conns[j]

\* C18: with the const strategy and c > 0, forwarding a stop request never
\* blocks Run forever: whenever Run waits to send on the full one-slot stop
\* channel, the pool's loop is still there to receive from it, so the send
\* goes through and Run can go on to return
C18_ForwardNeverStuck ==
  (cfg.constStrategy /\ cfg.c > 0) =>
    ~(rpc = "forward" /\ stopBuf = 1 /\ ppc = "returned")

\* C19: no CallResult is enqueued after the result pipeline is closed: the
\* pipeline is closed only by Run taking the pool's completion event, the pool
\* raises that event only when every worker has returned, no worker has a call
\* in flight once it is closed, and no send on the closed pipeline happens
C19_NoEnqueueAfterClose ==
  [][/\ (~results.closed /\ results'.closed) =>
          /\ rpc = "select" /\ doneBuf # <<>> /\ ppc = "returned"
          /\ \A i \in Workers : workers[i].pc = "returned"
     /\ (doneBuf = <<>> /\ doneBuf' # <<>>) =>
          \A i \in Workers : workers[i].pc = "returned"
     /\ results'.closed =>
          /\ \A i \in Workers : workers'[i].pc = "returned"
          /\ results'.len <= results.len
          /\ panic' # "send on closed channel"
    ]_vars

C19_Witness ==
  /\ results.closed /\ cfg.c = 2 /\ cfg.zstop = "close" /\ stopsHandled # <<>>
  /\ IssuedCalls >= 2 /\ stopCloseDone

\* C20: with a non-const strategy or schedule Run creates no worker, issues no
\* call and can still return: while it waits in its select loop the completion
\* event is on done or the goroutine started for the pool is still to send it
C20_NonConstReturns ==
  ~cfg.constStrategy =>
    /\ \A i \in Workers : workers[i].pc = "none"
    /\ IssuedCalls = 0
    /\ rpc \in {"select", "forward"} => (doneBuf # <<>> \/ ppc # "noop")

====
